---- MODULE Spec2Model ----
(***************************************************************************)
(* Classification and zone allocation of db-ensym / db-nvrmap.             *)
(*                                                                         *)
(* The repository holds two live implementations of the same pipeline:     *)
(*   "script"   src/db-nvrmap.py        (the one the unit tests import)    *)
(*   "package"  src/db_nvrmap/core.py   (used by cli.py and web.py)        *)
(* Both are modelled, operator by operator, under the prefixes script_ and *)
(* core_.                                                                  *)
(*                                                                         *)
(* Strings are sequences of character codes (ord), so that chr(ord('@')+n) *)
(* is computed as the code computes it, whatever character it yields.      *)
(* Python lists are 0-based and TLA+ sequences 1-based: count[si - 1] of   *)
(* the source is count[si] here.                                           *)
(***************************************************************************)
EXTENDS Integers, Sequences, FiniteSets, TLC

VARIABLES
    impl,           \* which implementation runs: "script" or "package"
    mode,           \* output format: "nvrmap", "ensym_2017" or "ensym_2013"
    view_pfi_list,  \* the batch of parcel ids (view_pfis)
    evc_df,         \* the benchmark table, rows in stored order
    cur,            \* the row the frame handed out last, NoRow before the first
    gdf,            \* the rows classified so far, in input order
    count,          \* the zone counters, one per batch entry
    pc,             \* the pipeline's position
    err,            \* the exception that ended the run, "" when none
    call,           \* a direct call of one function and what it returned
    args,           \* the command line: the flags and the gain-score override
    input_gdf,      \* the polygon records the query returned, in stored order
    output_gdf,     \* the frame the builder returned: its columns and its rows
    shapefile,      \* the output target: nothing, or the frame written to it
    exit_code,      \* the status the process exited with, Running before
    req,            \* the web requests in progress, each with its own locals
    final_config,   \* what load_config returned, NoConfig before
    engine          \* the database connection: "" or "connected"

vars == <<impl, mode, view_pfi_list, evc_df, cur, gdf, count, pc, err, call,
          args, input_gdf, output_gdf, shapefile, exit_code, req,
          final_config, engine>>

\* What a whole command-line run or a web request adds to the state
main_vars == <<args, input_gdf, output_gdf, shapefile, exit_code, req,
               final_config, engine>>

----------------------------------------------------------------------------
(* Bounds of the model *)

MaxBatch == 2
MaxRows == 3
MaxCounter == 705

----------------------------------------------------------------------------
(* Character codes and string literals of the source *)

ord_at == 64
ord_A == 65
ord_0 == 48
ord_underscore == 95
ord_space == 32

\* 'LC'
LC == <<76, 67>>
\* 'TBC'
TBC == <<84, 66, 67>>

\* The exceptions of the row functions, by their Python messages
IndexErrorList == "IndexError: list index out of range"

IndexErrorIloc == "IndexError: single positional indexer is out-of-bounds"

ValueErrorIndex == "ValueError: x is not in list"

\* str(n) for n >= 0: the decimal digits
RECURSIVE str(_)
str(n) == IF n < 10 THEN <<ord_0 + n>> ELSE str(n \div 10) \o <<ord_0 + (n % 10)>>

\* s.zfill(width): zeros on the left up to width, s itself when longer
RECURSIVE zfill(_, _)
zfill(s, width) == IF Len(s) >= width THEN s ELSE zfill(<<ord_0>> \o s, width)

\* int(evc) for evc >= 0 given in tenths (55.9 is 559): truncation
int(evc10) == evc10 \div 10

\* s.strip(): leading and trailing blanks removed
RECURSIVE lstrip(_)
lstrip(s) == IF s # <<>> /\ Head(s) = ord_space THEN lstrip(Tail(s)) ELSE s

RECURSIVE rstrip(_)
rstrip(s) ==
    IF s # <<>> /\ s[Len(s)] = ord_space THEN rstrip(SubSeq(s, 1, Len(s) - 1)) ELSE s

strip(s) == rstrip(lstrip(s))

\* Series.str.contains(sub) on one key (the codes hold no regex metacharacter)
str_contains(key, sub) ==
    \E i \in 0..(Len(key) - Len(sub)) : SubSeq(key, i + 1, i + Len(sub)) = sub

\* A variant of list.index that answers the last element equal to x
list_index_last(l, x) ==
    (CHOOSE i \in 1..Len(l) : l[i] = x /\ \A j \in (i + 1)..Len(l) : l[j] # x) - 1

\* list.index(x): 0-based position of the first element equal to x
list_index(l, x) ==
    (CHOOSE i \in 1..Len(l) : l[i] = x /\ \A j \in 1..(i - 1) : l[j] # x) - 1

\* x in l
list_has(l, x) == \E i \in 1..Len(l) : l[i] = x

----------------------------------------------------------------------------
(* src/db-nvrmap.py: the script *)

\* A variant of generate_zone_id that starts again at A past 26
script_generate_zone_id_wrapping(cnt, si) ==
    <<ord_A + ((cnt[si] - 1) % 26)>>

\* generate_zone_id: two letters past 26, first letter from counter // 26
script_generate_zone_id(cnt, si) ==
    LET counter == cnt[si] IN
    IF counter <= 26
    THEN <<ord_at + counter>>
    ELSE LET c == counter - 1 IN
         <<ord_A + (c \div 26) - 1, ord_A + (c % 26)>>

\* format_bioevc
script_format_bioevc(bioregcode, evc) ==
    LET evc_padded == zfill(str(int(evc)), 4) IN
    IF Len(bioregcode) <= 3
    THEN bioregcode \o <<ord_underscore>> \o evc_padded
    ELSE bioregcode \o evc_padded

\* calculate_site_id: a ValueError of list.index is caught and answered with 1
script_calculate_site_id(pfi_list, view_pfi) ==
    IF Len(pfi_list) > 1
    THEN IF list_has(pfi_list, view_pfi)
         THEN list_index(pfi_list, view_pfi) + 1
         ELSE 1
    ELSE 1

\* A variant of the selection that keeps only the rows whose key equals bioevc
matching_rows_exact(df, bioevc) ==
    SelectSeq(df, LAMBDA r : r.BIOEVCCODE = bioevc)

\* The rows of the benchmark table whose BIOEVCCODE contains bioevc, in stored order
matching_rows(df, bioevc) ==
    SelectSeq(df, LAMBDA r : str_contains(r.BIOEVCCODE, bioevc))

\* A variant of the checks that returns the whole word, not its first character
script_bcs_category_whole_word(bcs_value) ==
    IF ~bcs_value.isstr \/ strip(bcs_value.s) = <<>> \/ strip(bcs_value.s) = TBC
    THEN LC
    ELSE bcs_value.s

\* lookup_bcs_value, lines 415-420: the checks on the value found
script_bcs_category(bcs_value) ==
    IF ~bcs_value.isstr \/ strip(bcs_value.s) = <<>> \/ strip(bcs_value.s) = TBC
    THEN LC
    ELSE IF bcs_value.s # LC
         THEN <<bcs_value.s[1]>>
         ELSE bcs_value.s

\* A variant of lookup_bcs_value that lets the IndexError of .iloc[0] escape
script_lookup_bcs_value_uncaught(bioevc, df) ==
    LET found == matching_rows(df, bioevc) IN
    IF found = <<>>
    THEN [exc |-> IndexErrorIloc, bcs |-> <<>>]
    ELSE [exc |-> "", bcs |-> script_bcs_category(found[1].BCS_CATEGORY)]

\* lookup_bcs_value: .iloc[0] of no row raises IndexError, caught and answered 'LC'
script_lookup_bcs_value(bioevc, df) ==
    LET found == matching_rows(df, bioevc) IN
    IF found = <<>>
    THEN [exc |-> "", bcs |-> LC]
    ELSE [exc |-> "", bcs |-> script_bcs_category(found[1].BCS_CATEGORY)]

\* What a row function returns, or the exception it raises
Raised(e) == [exc |-> e, si |-> 0, zi |-> <<>>, bioevc |-> <<>>, bcs |-> <<>>, count |-> <<>>]

Returned(si, zi, bioevc, bcs, cnt) ==
    [exc |-> "", si |-> si, zi |-> zi, bioevc |-> bioevc, bcs |-> bcs, count |-> cnt]

\* A variant of the increment that starts the other sites' counters again
increment_and_reset_others(cnt, si) ==
    [i \in DOMAIN cnt |-> IF i = si THEN cnt[i] + 1 ELSE 0]

\* count[si - 1] += 1; IndexError when the list has no such entry
increment(cnt, si) == [cnt EXCEPT ![si] = @ + 1]

\* A variant of process_nvrmap_rows that computes the label before the increment
script_process_nvrmap_rows_label_first(row, pfi_list, cnt) ==
    LET si == script_calculate_site_id(pfi_list, row.view_pfi) IN
    IF si > Len(cnt)
    THEN Raised(IndexErrorList)
    ELSE LET zi == script_generate_zone_id(cnt, si)
             cnt2 == increment(cnt, si)
             bioevc == script_format_bioevc(row.bioregcode, row.evc)
         IN Returned(si, zi, bioevc, <<>>, cnt2)

\* process_nvrmap_rows
script_process_nvrmap_rows(row, pfi_list, cnt) ==
    LET si == script_calculate_site_id(pfi_list, row.view_pfi) IN
    IF si > Len(cnt)
    THEN Raised(IndexErrorList)
    ELSE LET cnt2 == increment(cnt, si)
             zi == script_generate_zone_id(cnt2, si)
             bioevc == script_format_bioevc(row.bioregcode, row.evc)
         IN Returned(si, zi, bioevc, <<>>, cnt2)

\* process_ensym_rows
script_process_ensym_rows(row, df, pfi_list, cnt) ==
    LET bioevc == script_format_bioevc(row.bioregcode, row.evc)
        looked == script_lookup_bcs_value(bioevc, df)
        si == script_calculate_site_id(pfi_list, row.view_pfi)
    IN IF looked.exc # ""
       THEN Raised(looked.exc)
       ELSE IF si > Len(cnt)
            THEN Raised(IndexErrorList)
            ELSE LET cnt2 == increment(cnt, si)
                     zi == script_generate_zone_id(cnt2, si)
                 IN Returned(si, zi, bioevc, looked.bcs, cnt2)

----------------------------------------------------------------------------
(* src/db_nvrmap/core.py: the package *)

\* A variant of generate_zone_id that counts in base 26 past 26, as the script
core_generate_zone_id_base26(cnt, si) ==
    IF cnt[si] <= 26
    THEN <<ord_at + cnt[si]>>
    ELSE <<ord_A + ((cnt[si] - 1) \div 26) - 1, ord_A + ((cnt[si] - 1) % 26)>>

\* generate_zone_id: the same letter twice past 26
core_generate_zone_id(cnt, si) ==
    IF cnt[si] <= 26
    THEN <<ord_at + cnt[si]>>
    ELSE <<ord_at + cnt[si] - 26, ord_at + cnt[si] - 26>>

\* process_nvrmap_rows, lines 237-239: the combined code
core_nvrmap_bioevc(bioregcode, evc) ==
    IF Len(bioregcode) <= 3
    THEN bioregcode \o <<ord_underscore>> \o zfill(str(int(evc)), 4)
    ELSE bioregcode \o zfill(str(int(evc)), 4)

\* process_ensym_rows, lines 249-253: the combined code; "" unless set by an if
core_ensym_bioevc(bioregcode, evc) ==
    LET bioevc0 == <<>>
        bioevc1 == IF Len(bioregcode) <= 3
                   THEN bioregcode \o <<ord_underscore>> \o zfill(str(int(evc)), 4)
                   ELSE bioevc0
        bioevc2 == IF Len(bioregcode) = 4
                   THEN bioregcode \o zfill(str(int(evc)), 4)
                   ELSE bioevc1
    IN bioevc2

\* A variant without the test of the length: list.index whatever the batch
core_site_id_unguarded(pfi_list, view_pfi) ==
    IF list_has(pfi_list, view_pfi)
    THEN [exc |-> "", si |-> list_index(pfi_list, view_pfi) + 1]
    ELSE [exc |-> ValueErrorIndex, si |-> 0]

\* lines 233-234 and 266-267: list.index raises ValueError for an id not in the list
core_site_id(pfi_list, view_pfi) ==
    IF Len(pfi_list) > 1
    THEN IF list_has(pfi_list, view_pfi)
         THEN [exc |-> "", si |-> list_index(pfi_list, view_pfi) + 1]
         ELSE [exc |-> ValueErrorIndex, si |-> 0]
    ELSE [exc |-> "", si |-> 1]

\* process_ensym_rows, lines 261-264: the checks on the value found
core_bcs_category(bcs_value) ==
    IF ~bcs_value.isstr \/ bcs_value.s = <<>> \/ bcs_value.s = TBC
    THEN LC
    ELSE IF bcs_value.s # LC
         THEN <<bcs_value.s[1]>>
         ELSE bcs_value.s

\* process_ensym_rows, lines 255-264: .iloc[0, 5] of no row raises IndexError, caught
core_lookup_bcs_value(bioevc, df) ==
    LET found == matching_rows(df, bioevc) IN
    IF found = <<>>
    THEN [exc |-> "", bcs |-> core_bcs_category([isstr |-> TRUE, s |-> LC])]
    ELSE [exc |-> "", bcs |-> core_bcs_category(found[1].BCS_CATEGORY)]

\* process_nvrmap_rows
core_process_nvrmap_rows(row, pfi_list, cnt) ==
    LET site == core_site_id(pfi_list, row.view_pfi) IN
    IF site.exc # ""
    THEN Raised(site.exc)
    ELSE IF site.si > Len(cnt)
         THEN Raised(IndexErrorList)
         ELSE LET cnt2 == increment(cnt, site.si)
                  zi == core_generate_zone_id(cnt2, site.si)
                  bioevc == core_nvrmap_bioevc(row.bioregcode, row.evc)
              IN Returned(site.si, zi, bioevc, <<>>, cnt2)

\* process_ensym_rows
core_process_ensym_rows(row, df, pfi_list, cnt) ==
    LET bioevc == core_ensym_bioevc(row.bioregcode, row.evc)
        looked == core_lookup_bcs_value(bioevc, df)
        site == core_site_id(pfi_list, row.view_pfi)
    IN IF looked.exc # ""
       THEN Raised(looked.exc)
       ELSE IF site.exc # ""
            THEN Raised(site.exc)
            ELSE IF site.si > Len(cnt)
                 THEN Raised(IndexErrorList)
                 ELSE LET cnt2 == increment(cnt, site.si)
                          zi == core_generate_zone_id(cnt2, site.si)
                      IN Returned(site.si, zi, bioevc, looked.bcs, cnt2)

\* A status cell holding a string, and one holding None or NaN
Str(s) == [isstr |-> TRUE, s |-> s]

NotStr == [isstr |-> FALSE, s |-> <<>>]

----------------------------------------------------------------------------
(* src/db-ensym.py: the first script, module-level code and find_hh_evc.    *)
(* Its statements are modelled as they read; the create_engine call of      *)
(* lines 34-36 lacks the comma before pool_size.                            *)

UnboundLocalBioevc == "UnboundLocalError: bioevc"

UnboundLocalSi == "UnboundLocalError: si"

TypeErrorSubscript == "TypeError: 'float' object is not subscriptable"

\* find_hh_evc, lines 99-102: bioevc is bound by one of two ifs, or not at all
legacy_bioevc(bioregcode, evc) ==
    LET unbound == [bound |-> FALSE, s |-> <<>>]
        bioevc1 == IF Len(bioregcode) <= 3
                   THEN [bound |-> TRUE,
                         s |-> bioregcode \o <<ord_underscore>> \o zfill(str(int(evc)), 4)]
                   ELSE unbound
        bioevc2 == IF Len(bioregcode) = 4
                   THEN [bound |-> TRUE, s |-> bioregcode \o zfill(str(int(evc)), 4)]
                   ELSE bioevc1
    IN bioevc2

\* find_hh_evc, lines 104-116: a cell that is no string is NaN, which is true
\* and not 'LC', so that bcs_value[0] raises TypeError
legacy_lookup_bcs_value(bioevc, df) ==
    LET found == matching_rows(df, bioevc)
        bcs_value == IF found = <<>> THEN Str(LC) ELSE found[1].BCS_CATEGORY
    IN IF ~bcs_value.isstr
       THEN [exc |-> TypeErrorSubscript, bcs |-> <<>>]
       ELSE IF bcs_value.s = <<>> \/ bcs_value.s = TBC
            THEN [exc |-> "", bcs |-> LC]
            ELSE IF bcs_value.s # LC
                 THEN [exc |-> "", bcs |-> <<bcs_value.s[1]>>]
                 ELSE [exc |-> "", bcs |-> bcs_value.s]

\* find_hh_evc, lines 119-126: every batch entry equal to the row's id is
\* counted and the last of them is the site; si stays unbound when none is
legacy_site(pfi_list, view_pfi, cnt) ==
    IF Len(pfi_list) > 1
    THEN LET hits == {id \in 1..Len(pfi_list) : pfi_list[id] = view_pfi} IN
         IF hits = {}
         THEN [exc |-> UnboundLocalSi, si |-> 0, count |-> cnt]
         ELSE [exc |-> "",
               si |-> CHOOSE id \in hits : \A other \in hits : other <= id,
               count |-> [id \in 1..Len(cnt) |-> IF id \in hits THEN cnt[id] + 1 ELSE cnt[id]]]
    ELSE [exc |-> "", si |-> 1, count |-> increment(cnt, 1)]

\* find_hh_evc, lines 128-132: the same letter twice past 26
legacy_zone_id(cnt, si) ==
    IF cnt[si] <= 26
    THEN <<ord_at + cnt[si]>>
    ELSE <<ord_at + cnt[si] - 26, ord_at + cnt[si] - 26>>

\* find_hh_evc
legacy_find_hh_evc(row, df, pfi_list, cnt) ==
    LET bioevc == legacy_bioevc(row.bioregcode, row.evc) IN
    IF ~bioevc.bound
    THEN Raised(UnboundLocalBioevc)
    ELSE LET looked == legacy_lookup_bcs_value(bioevc.s, df) IN
         IF looked.exc # ""
         THEN Raised(looked.exc)
         ELSE LET site == legacy_site(pfi_list, row.view_pfi, cnt) IN
              IF site.exc # ""
              THEN Raised(site.exc)
              ELSE Returned(site.si, legacy_zone_id(site.count, site.si),
                            bioevc.s, looked.bcs, site.count)

----------------------------------------------------------------------------
(* The inputs the model draws *)

Impls == {"script", "package"}

Modes == {"nvrmap", "ensym_2017", "ensym_2013"}

\* Parcel ids a caller supplies, and one more that only the database returns
BatchIds == {"123456", "789012"}

RowIds == BatchIds \cup {"999999"}

\* All sequences over S of length lo..hi
SeqsOf(S, lo, hi) == UNION {[1..n -> S] : n \in lo..hi}

Batches == SeqsOf(BatchIds, 0, MaxBatch)

\* Bioregion codes of 1 to 6 characters: V, VP, VVP, STIF, STIFX, STIFXY
V == <<86>>

VP == <<86, 80>>

VVP == <<86, 86, 80>>

STIF == <<83, 84, 73, 70>>

STIFX == <<83, 84, 73, 70, 88>>

STIFXY == <<83, 84, 73, 70, 88, 89>>

Bioregcodes == {V, VP, VVP, STIF, STIFX, STIFXY}

\* Vegetation classes in tenths: 0, 5, 55, 55.9, 132, 5555, 12345
Evcs == {0, 50, 550, 559, 1320, 55550, 123450}

\* Benchmark keys: VVP_0055, VVP_00551, STIF0132
VVP_0055 == <<86, 86, 80, 95, 48, 48, 53, 53>>

VVP_00551 == <<86, 86, 80, 95, 48, 48, 53, 53, 49>>

STIF0132 == <<83, 84, 73, 70, 48, 49, 51, 50>>

\* A code no key of the model contains: GGP_0175
GGP_0175 == <<71, 71, 80, 95, 48, 49, 55, 53>>

\* A code shorter than any formatted one: VVP_005
VVP_005 == <<86, 86, 80, 95, 48, 48, 53>>

\* Status cells: Endangered, Vulnerable, LC, TBC, ' TBC', '   ', '', ' LC', None
Endangered == <<69, 110, 100, 97, 110, 103, 101, 114, 101, 100>>

Vulnerable == <<86, 117, 108, 110, 101, 114, 97, 98, 108, 101>>

BcsCells ==
    { Str(Endangered), Str(Vulnerable), Str(LC), Str(TBC),
      Str(<<ord_space>> \o TBC), Str(<<ord_space, ord_space, ord_space>>),
      Str(<<>>), Str(<<ord_space>> \o LC), NotStr }

BenchmarkRows == [BIOEVCCODE : {VVP_0055, VVP_00551, STIF0132}, BCS_CATEGORY : BcsCells]

\* The tables a direct call of the lookup is given
MaxTable == 2

LookupTables == SeqsOf(BenchmarkRows, 0, MaxTable)

LookupCodes == {VVP_0055, VVP_005, GGP_0175, <<>>}

\* The tables a run loads: an empty one, and one whose first key only contains VVP_0055
RunTables ==
    { <<>>,
      << [BIOEVCCODE |-> VVP_00551, BCS_CATEGORY |-> Str(Vulnerable)],
         [BIOEVCCODE |-> VVP_0055, BCS_CATEGORY |-> Str(Endangered)] >> }

\* The polygon records a run reads
PolygonRecords ==
    { [view_pfi |-> id, bioregcode |-> c[1], evc |-> c[2]] :
        id \in RowIds, c \in {<<VVP, 550>>, <<STIF, 1320>>} }

----------------------------------------------------------------------------
(* The run: main() of the script, generate_shapefile() of the package *)

NoCall == [fn |-> "none"]

NoRow == [view_pfi |-> "", bioregcode |-> <<>>, evc |-> 0]

\* Before parse_args, before the builder returns, before anything is written
NoArgs == [entry |-> "", ensym |-> FALSE, sbeu |-> FALSE, output_format |-> "",
           gainscore |-> [given |-> FALSE, v |-> 0]]

NoFrame == [columns |-> <<>>, rows |-> <<>>]

NoFile == [written |-> FALSE, attempts |-> 0, schema |-> "", gdf |-> NoFrame]

\* Before load_config
NoConfig == [project |-> "", collector |-> "", default_habitat_score |-> 0,
             default_gain_score |-> 0]

\* No exit status yet
Running == -1

Init ==
    /\ impl \in Impls
    /\ mode \in Modes
    /\ view_pfi_list \in Batches
    /\ evc_df = <<>>
    /\ cur = NoRow
    /\ gdf = <<>>
    /\ count = <<>>
    /\ pc = "load_geo_dataframe"
    /\ err = ""
    /\ call = NoCall
    /\ args = NoArgs
    /\ input_gdf = <<>>
    /\ output_gdf = NoFrame
    /\ shapefile = NoFile
    /\ exit_code = Running
    /\ req = <<>>
    /\ final_config = NoConfig
    /\ engine = ""

\* load_geo_dataframe: an empty result raises ValueError. The query keeps the
\* parcels WHERE pfi IN (view_pfi_list), so an empty batch has an empty result.
LoadGeoDataframe ==
    /\ pc = "load_geo_dataframe"
    /\ \E empty \in BOOLEAN :
        /\ view_pfi_list = <<>> => empty
        /\ IF empty
           THEN pc' = "failed" /\ err' = "ValueError: No search results found"
           ELSE pc' = "load_evc_data" /\ err' = err
    /\ UNCHANGED <<impl, mode, view_pfi_list, evc_df, cur, gdf, count, call>>
    /\ UNCHANGED main_vars

\* load_evc_data: the benchmark table is read once
LoadEvcData ==
    /\ pc = "load_evc_data"
    /\ evc_df' \in RunTables
    /\ pc' = "select_output_gdf"
    /\ UNCHANGED <<impl, mode, view_pfi_list, cur, gdf, count, err, call>>
    /\ UNCHANGED main_vars

\* build_ensym_gdf / build_nvrmap_gdf, first line: count = [0] * len(view_pfi_list)
BuildStart ==
    /\ pc = "select_output_gdf"
    /\ count' = [i \in 1..Len(view_pfi_list) |-> 0]
    /\ pc' = "apply"
    /\ UNCHANGED <<impl, mode, view_pfi_list, evc_df, cur, gdf, err, call>>
    /\ UNCHANGED main_vars

\* select_output_gdf: the row function of the format and the implementation
process_rows(im, md, row, df, pfi_list, cnt) ==
    IF md \in {"ensym_2017", "ensym_2013"}
    THEN IF im = "script"
         THEN script_process_ensym_rows(row, df, pfi_list, cnt)
         ELSE core_process_ensym_rows(row, df, pfi_list, cnt)
    ELSE IF im = "script"
         THEN script_process_nvrmap_rows(row, pfi_list, cnt)
         ELSE core_process_nvrmap_rows(row, pfi_list, cnt)

\* gdf.apply(..., axis=1): the next row of the frame is classified; an exception
\* of the row function ends the run. The rows are those the database returned;
\* their ids are compared with the batch by Python's ==, not by the query.
ProcessRow ==
    /\ pc = "apply"
    /\ Len(gdf) < MaxRows
    /\ \E row \in PolygonRecords :
        LET r == process_rows(impl, mode, row, evc_df, view_pfi_list, count) IN
        /\ cur' = row
        /\ IF r.exc # ""
           THEN /\ pc' = "failed"
                /\ err' = r.exc
                /\ UNCHANGED <<gdf, count>>
           ELSE /\ gdf' = Append(gdf, [view_pfi |-> row.view_pfi,
                                       bioregcode |-> row.bioregcode,
                                       evc |-> row.evc,
                                       si |-> r.si, zi |-> r.zi,
                                       bioevc |-> r.bioevc, bcs |-> r.bcs])
                /\ count' = r.count
                /\ UNCHANGED <<pc, err>>
    /\ UNCHANGED <<impl, mode, view_pfi_list, evc_df, call>>
    /\ UNCHANGED main_vars

\* The frame has no further row: apply returns
ApplyDone ==
    /\ pc = "apply"
    /\ Len(gdf) >= 1
    /\ pc' = "built"
    /\ UNCHANGED <<impl, mode, view_pfi_list, evc_df, cur, gdf, count, err, call>>
    /\ UNCHANGED main_vars

Next ==
    \/ LoadGeoDataframe
    \/ LoadEvcData
    \/ BuildStart
    \/ ProcessRow
    \/ ApplyDone

Spec == Init /\ [][Next]_vars

----------------------------------------------------------------------------
(* Direct calls of the functions, as the unit tests make them *)

UnitInit ==
    /\ impl \in Impls
    /\ mode = "nvrmap"
    /\ view_pfi_list = <<>>
    /\ evc_df = <<>>
    /\ cur = NoRow
    /\ gdf = <<>>
    /\ count = <<>>
    /\ pc = "unit"
    /\ err = ""
    /\ call = NoCall
    /\ args = NoArgs
    /\ input_gdf = <<>>
    /\ output_gdf = NoFrame
    /\ shapefile = NoFile
    /\ exit_code = Running
    /\ req = <<>>
    /\ final_config = NoConfig
    /\ engine = ""

generate_zone_id(im, cnt, si) ==
    IF im = "script" THEN script_generate_zone_id(cnt, si) ELSE core_generate_zone_id(cnt, si)

\* generate_zone_id(count, si) with count[si - 1] = n
CallGenerateZoneId ==
    /\ call = NoCall
    /\ \E si \in 1..MaxBatch, n \in 0..MaxCounter :
        LET cnt == [i \in 1..MaxBatch |-> IF i = si THEN n ELSE 0] IN
        call' = [fn |-> "generate_zone_id", si |-> si, n |-> n,
                 zi |-> generate_zone_id(impl, cnt, si)]
    /\ UNCHANGED <<impl, mode, view_pfi_list, evc_df, cur, gdf, count, pc, err>>
    /\ UNCHANGED main_vars

\* The combined code of a row in the given implementation and row function
format_bioevc(im, rowfn, bioregcode, evc) ==
    IF im = "script"
    THEN script_format_bioevc(bioregcode, evc)
    ELSE IF rowfn = "process_nvrmap_rows"
         THEN core_nvrmap_bioevc(bioregcode, evc)
         ELSE core_ensym_bioevc(bioregcode, evc)

CallFormatBioevc ==
    /\ call = NoCall
    /\ \E rowfn \in {"process_nvrmap_rows", "process_ensym_rows"},
          b \in Bioregcodes, e \in Evcs :
        call' = [fn |-> "format_bioevc", rowfn |-> rowfn,
                 bioregcode |-> b, evc |-> e,
                 bioevc |-> format_bioevc(impl, rowfn, b, e)]
    /\ UNCHANGED <<impl, mode, view_pfi_list, evc_df, cur, gdf, count, pc, err>>
    /\ UNCHANGED main_vars

lookup_bcs_value(im, bioevc, df) ==
    IF im = "script" THEN script_lookup_bcs_value(bioevc, df) ELSE core_lookup_bcs_value(bioevc, df)

CallLookupBcsValue ==
    /\ call = NoCall
    /\ \E df \in LookupTables, code \in LookupCodes :
        LET r == lookup_bcs_value(impl, code, df) IN
        call' = [fn |-> "lookup_bcs_value", evc_df |-> df,
                 bioevc |-> code, exc |-> r.exc, bcs |-> r.bcs]
    /\ UNCHANGED <<impl, mode, view_pfi_list, evc_df, cur, gdf, count, pc, err>>
    /\ UNCHANGED main_vars

calculate_site_id(im, pfi_list, view_pfi) ==
    IF im = "script"
    THEN [exc |-> "", si |-> script_calculate_site_id(pfi_list, view_pfi)]
    ELSE core_site_id(pfi_list, view_pfi)

CallCalculateSiteId ==
    /\ call = NoCall
    /\ \E l \in Batches, id \in RowIds :
        LET r == calculate_site_id(impl, l, id) IN
        call' = [fn |-> "calculate_site_id", view_pfi_list |-> l,
                 view_pfi |-> id, exc |-> r.exc, si |-> r.si]
    /\ UNCHANGED <<impl, mode, view_pfi_list, evc_df, cur, gdf, count, pc, err>>
    /\ UNCHANGED main_vars

\* The zone label of find_hh_evc in db-ensym.py with count[si - 1] = n
CallLegacyZoneId ==
    /\ call = NoCall
    /\ \E si \in 1..MaxBatch, n \in 0..MaxCounter :
        LET cnt == [i \in 1..MaxBatch |-> IF i = si THEN n ELSE 0] IN
        call' = [fn |-> "legacy_zone_id", si |-> si, n |-> n,
                 zi |-> legacy_zone_id(cnt, si)]
    /\ UNCHANGED <<impl, mode, view_pfi_list, evc_df, cur, gdf, count, pc, err>>
    /\ UNCHANGED main_vars

UnitNext ==
    \/ CallGenerateZoneId
    \/ CallLegacyZoneId
    \/ CallFormatBioevc
    \/ CallLookupBcsValue
    \/ CallCalculateSiteId

UnitSpec == UnitInit /\ [][UnitNext]_vars

----------------------------------------------------------------------------
(* Frames: the columns in order, and the rows as functions of the columns *)

Range(s) == {s[i] : i \in DOMAIN s}

\* Each operation below takes its frame as the one element of a singleton
\* set: the frame is computed once, before the operation, as pandas does.

\* A function given by a rule, as the table of its values
eager(f) == f @@ <<>>

\* input_gdf.loc[:, ['geom', 'bioregcode', 'evc', 'view_pfi']]
loc(rows, cols) ==
    [columns |-> cols,
     rows |-> eager([i \in 1..Len(rows) |-> eager([k \in Range(cols) |-> rows[i][k]])])]

\* gdf[c] = vals: an existing column keeps its place, a new one goes last
setcol(f0, c, vals0) ==
    CHOOSE g \in
        { [columns |-> IF c \in Range(f.columns) THEN f.columns ELSE Append(f.columns, c),
           rows |-> eager([i \in 1..Len(f.rows) |->
                       eager([k \in Range(f.columns) \cup {c} |->
                           IF k = c THEN vals[i] ELSE f.rows[i][k]])])]
          : f \in {f0}, vals \in {eager(vals0)} } : TRUE

\* gdf[c] = v, the same value in every row
setconst(f0, c, v) ==
    CHOOSE g \in { setcol(f, c, [i \in 1..Len(f.rows) |-> v]) : f \in {f0} } : TRUE

\* gdf.drop(cols, axis=1)
drop(f0, cols) ==
    CHOOSE g \in
        { LET kept == SelectSeq(f.columns, LAMBDA c : c \notin cols) IN
          [columns |-> kept,
           rows |-> eager([i \in 1..Len(f.rows) |->
                       eager([k \in Range(kept) |-> f.rows[i][k]])])]
          : f \in {f0} } : TRUE

\* A variant of rename that makes a new column b of zeros in the place of a
rename_without_values(f0, a, b) ==
    CHOOSE g \in
        { [columns |-> eager([i \in 1..Len(f.columns) |->
                                 IF f.columns[i] = a THEN b ELSE f.columns[i]]),
           rows |-> eager([i \in 1..Len(f.rows) |->
                       eager([k \in (Range(f.columns) \ {a}) \cup {b} |->
                           IF k = b THEN 0 ELSE f.rows[i][k]])])]
          : f \in {f0} } : TRUE

\* gdf.rename(columns={a: b})
rename(f0, a, b) ==
    CHOOSE g \in
        { [columns |-> eager([i \in 1..Len(f.columns) |->
                                 IF f.columns[i] = a THEN b ELSE f.columns[i]]),
           rows |-> eager([i \in 1..Len(f.rows) |->
                       eager([k \in (Range(f.columns) \ {a}) \cup {b} |->
                           IF k = b THEN f.rows[i][a] ELSE f.rows[i][k]])])]
          : f \in {f0} } : TRUE

\* gdf[cols]
reindex(f0, cols0) ==
    CHOOSE g \in
        { [columns |-> cols,
           rows |-> eager([i \in 1..Len(f.rows) |->
                       eager([k \in Range(cols) |-> f.rows[i][k]])])]
          : f \in {f0}, cols \in {cols0} } : TRUE

\* A variant of move_column_to_end that leaves the columns where they are
keep_column_order(f0, column) == f0

\* move_column_to_end of the script
move_column_to_end(f0, column) ==
    CHOOSE g \in
        { reindex(f, SelectSeq(f.columns, LAMBDA c : c # column) \o <<column>>)
          : f \in {f0} } : TRUE

\* cols[+1:] + cols[:+1] of the package and of db-ensym.py
rotate_first_to_end(f0) ==
    CHOOSE g \in
        { reindex(f, SubSeq(f.columns, 2, Len(f.columns)) \o SubSeq(f.columns, 1, 1))
          : f \in {f0} } : TRUE

\* The row function the builder applies
classify(im, md, row, df, pfi_list, cnt) ==
    IF im = "legacy"
    THEN legacy_find_hh_evc(row, df, pfi_list, cnt)
    ELSE process_rows(im, md, row, df, pfi_list, cnt)

\* gdf.apply(lambda row: ..., axis=1, result_type="expand"): the rows are
\* classified in index order with the one list count; an exception ends it
RECURSIVE apply_from(_, _, _, _, _, _, _, _)
apply_from(im, md, rows, i, df, pfi_list, cnt, acc) ==
    IF i > Len(rows)
    THEN [exc |-> "", out |-> acc, count |-> cnt]
    ELSE LET r == classify(im, md, rows[i], df, pfi_list, cnt) IN
         IF r.exc # ""
         THEN [exc |-> r.exc, out |-> <<>>, count |-> cnt]
         ELSE apply_from(im, md, rows, i + 1, df, pfi_list, r.count, Append(acc, r))

\* A variant of apply that hands the rows out last to first
apply_reversed(im, md, rows, df, pfi_list, cnt) ==
    apply_from(im, md, [i \in 1..Len(rows) |-> rows[Len(rows) + 1 - i]], 1,
               df, pfi_list, cnt, <<>>)

apply(im, md, rows, df, pfi_list, cnt) ==
    apply_from(im, md, rows, 1, df, pfi_list, cnt, <<>>)

----------------------------------------------------------------------------
(* The builders *)

\* The attribute_table of the configuration; the scores are in hundredths
config ==
    [project |-> "TEST_PROJECT", collector |-> "Test Collector",
     default_habitat_score |-> 50, default_gain_score |-> 22]

\* The constants db-ensym.py has in place of a configuration
legacy_config ==
    [project |-> "Python", collector |-> "Desktop",
     default_habitat_score |-> 40, default_gain_score |-> 22]

\* datetime.today().strftime("%Y-%m-%d") and strftime('%Y%m%d')
today_dashed == "2026-11-03"

today_compact == "20261103"

SQ_METERS_PER_HECTARE == 10000

\* if args.gainscore: None and 0.0 are both false
truthy(gainscore) == gainscore.given /\ gainscore.v # 0

\* A builder's result: the frame, or the exception of a row
Built(f) == [exc |-> "", gdf |-> f]

BuildFailed(e) == [exc |-> e, gdf |-> NoFrame]

InputColumns == <<"geom", "bioregcode", "evc", "view_pfi">>

\* if args.gainscore: ... else the configured default
gain_score(cfg, o) ==
    IF truthy(o.gainscore) THEN o.gainscore.v ELSE cfg.default_gain_score

\* build_ensym_gdf of the script and of the package, up to the 2013 change
ensym_2017_frame(im, input, df, pfi_list, cfg, o) ==
    LET count0 == [i \in 1..Len(pfi_list) |-> 0]
        n == 1..Len(input)
        f0 == loc(input, InputColumns)
        f1 == setconst(f0, "HH_PAI", cfg.project)
        f2 == setconst(f1, "HH_D", today_dashed)
        f3 == setconst(f2, "HH_CP", cfg.collector)
        f4 == setconst(f3, "HH_SI", 1)
        f5 == setcol(f4, "HH_ZI", [i \in n |-> i])
        f6 == setconst(f5, "HH_VAC", "P")
    IN CHOOSE built \in {
        LET f7 == setcol(f6, "HH_SI", [i \in n |-> r.out[i].si])
            f8 == setcol(f7, "HH_ZI", [i \in n |-> r.out[i].zi])
            f9 == setcol(f8, "HH_EVC", [i \in n |-> r.out[i].bioevc])
            f10 == setcol(f9, "BCS", [i \in n |-> r.out[i].bcs])
            f11 == setconst(f10, "LT_CNT", 0)
            f12 == setconst(f11, "HH_H_S", cfg.default_habitat_score)
            f13 == setconst(f12, "G_S", gain_score(cfg, o))
            f14 == setcol(f13, "HH_A",
                          [i \in n |-> input[i].geom.area \div SQ_METERS_PER_HECTARE])
            f15 == drop(f14, {"bioregcode", "evc", "view_pfi"})
            f16 == IF im = "script"
                   THEN move_column_to_end(f15, "geom")
                   ELSE rotate_first_to_end(f15)
        IN IF r.exc # "" THEN BuildFailed(r.exc) ELSE Built(f16)
        : r \in {apply(im, "ensym_2017", f6.rows, df, pfi_list, count0)} } : TRUE

\* build_ensym_gdf: the 2013 format drops three columns, renames one, reorders
build_ensym_gdf(im, input, df, pfi_list, cfg, o) ==
    CHOOSE built \in {
        IF b.exc # ""
        THEN b
        ELSE IF o.sbeu
             THEN LET g1 == drop(b.gdf, {"HH_EVC", "BCS", "LT_CNT"})
                      g2 == rename(g1, "G_S", "G_HA")
                      g3 == reindex(g2, <<"HH_PAI", "HH_SI", "HH_ZI", "HH_VAC", "HH_CP",
                                          "HH_D", "HH_H_S", "G_HA", "HH_A", "geom">>)
                  IN Built(g3)
             ELSE b
        : b \in {ensym_2017_frame(im, input, df, pfi_list, cfg, o)} } : TRUE

\* build_nvrmap_gdf of the script and of the package
build_nvrmap_gdf(im, input, pfi_list, cfg, o) ==
    LET count0 == [i \in 1..Len(pfi_list) |-> 0]
        n == 1..Len(input)
        f0 == loc(input, InputColumns)
        f1 == setconst(f0, "site_id", 1)
        f2 == setcol(f1, "zone_id", [i \in n |-> i])
        f3 == setconst(f2, "prop_id", cfg.project)
        f4 == setconst(f3, "vlot", 0)
        f5 == setconst(f4, "lot", 0)
        f6 == setconst(f5, "recruits", 0)
        f7 == setconst(f6, "type", "p")
        f8 == setconst(f7, "cp", cfg.collector)
    IN CHOOSE built \in {
        LET f9 == setcol(f8, "site_id", [i \in n |-> r.out[i].si])
            f10 == setcol(f9, "zone_id", [i \in n |-> r.out[i].zi])
            f11 == setcol(f10, "veg_codes", [i \in n |-> r.out[i].bioevc])
            f12 == setconst(f11, "lt_count", 0)
            f13 == setconst(f12, "cond_score", cfg.default_habitat_score)
            f14 == setconst(f13, "gain_score", gain_score(cfg, o))
            f15 == setconst(f14, "surv_date", today_compact)
            f16 == drop(f15, {"bioregcode", "evc", "view_pfi"})
            f17 == reindex(f16, <<"site_id", "zone_id", "prop_id", "vlot", "lot",
                                  "recruits", "type", "cp", "veg_codes", "lt_count",
                                  "cond_score", "gain_score", "surv_date", "geom">>)
        IN IF r.exc # "" THEN BuildFailed(r.exc) ELSE Built(f17)
        : r \in {apply(im, "nvrmap", f8.rows, <<>>, pfi_list, count0)} } : TRUE

\* A variant of select_output_gdf that tests the ensym flag only
select_output_gdf_ensym_only(im, o, input, df, view_pfis, cfg) ==
    IF o.ensym
    THEN build_ensym_gdf(im, input, df, view_pfis, cfg, o)
    ELSE build_nvrmap_gdf(im, input, view_pfis, cfg, o)

\* select_output_gdf of the script (args) and of the package (opts)
select_output_gdf(im, o, input, df, view_pfis, cfg) ==
    IF o.sbeu \/ o.ensym
    THEN build_ensym_gdf(im, input, df, view_pfis, cfg, o)
    ELSE build_nvrmap_gdf(im, input, view_pfis, cfg, o)

\* The schemas: the geometry type and the property names in the order written
ENSYM_2013_SCHEMA ==
    [geometry |-> "Polygon",
     properties |-> <<"HH_PAI", "HH_SI", "HH_ZI", "HH_VAC", "HH_CP", "HH_D", "HH_H_S",
                      "G_HA", "HH_A">>]

ENSYM_2017_SCHEMA ==
    [geometry |-> "Polygon",
     properties |-> <<"HH_PAI", "HH_D", "HH_CP", "HH_SI", "HH_ZI", "HH_VAC", "HH_EVC",
                      "BCS", "LT_CNT", "HH_H_S", "G_S", "HH_A">>]

NVRMAP_SCHEMA ==
    [geometry |-> "Polygon",
     properties |-> <<"site_id", "zone_id", "prop_id", "vlot", "lot", "recruits", "type",
                      "cp", "veg_codes", "lt_count", "cond_score", "gain_score",
                      "surv_date">>]

\* A variant of the writer's choice that tests the ensym flag first
schema_for_ensym_first(o) ==
    IF o.ensym
    THEN "ENSYM_2017_SCHEMA"
    ELSE IF o.sbeu THEN "ENSYM_2013_SCHEMA" ELSE "NVRMAP_SCHEMA"

\* write_gdf of the script, get_schema_for_format of the package
schema_for(o) ==
    IF o.sbeu
    THEN "ENSYM_2013_SCHEMA"
    ELSE IF o.ensym THEN "ENSYM_2017_SCHEMA" ELSE "NVRMAP_SCHEMA"

\* db-ensym.py, lines 137-162: the one frame it builds, whatever the flags
legacy_build(input, df, pfi_list, o) ==
    ensym_2017_frame("legacy", input, df, pfi_list, legacy_config,
                     [ensym |-> TRUE, sbeu |-> FALSE, gainscore |-> o.gainscore])

----------------------------------------------------------------------------
(* A whole run of each entry point: main() of db-nvrmap.py, main() of       *)
(* db_nvrmap/cli.py, generate() of db_nvrmap/web.py, and db-ensym.py        *)

Script == "db-nvrmap.py"

Cli == "db_nvrmap/cli.py"

Web == "db_nvrmap/web.py"

Legacy == "db-ensym.py"

implementation(entry) ==
    IF entry = Script THEN "script" ELSE IF entry = Legacy THEN "legacy" ELSE "package"

\* -g absent, -g 0 and -g 0.75, in hundredths
Gainscores == {[given |-> FALSE, v |-> 0], [given |-> TRUE, v |-> 0], [given |-> TRUE, v |-> 75]}

\* The command lines and the forms: -e and -b exist in db-nvrmap.py and cli.py
\* only, the form has one output_format field instead
CommandLines ==
    [entry : {Script, Cli}, ensym : BOOLEAN, sbeu : BOOLEAN,
     output_format : {""}, gainscore : Gainscores]
    \cup [entry : {Web}, ensym : {FALSE}, sbeu : {FALSE},
          output_format : {"nvrmap", "ensym_2017", "ensym_2013", "shp"},
          gainscore : Gainscores]
    \cup [entry : {Legacy}, ensym : {FALSE}, sbeu : {FALSE},
          output_format : {""}, gainscore : Gainscores]

\* The batches of a whole run: none, one parcel, two parcels
MainBatches == {<<>>, <<"123456">>, <<"123456", "789012">>}

\* The polygon records of a whole run; the areas are in square metres
MainRecords ==
    { [view_pfi |-> "123456", bioregcode |-> VVP, evc |-> 550, area |-> 10000],
      [view_pfi |-> "789012", bioregcode |-> STIF, evc |-> 1320, area |-> 20000],
      [view_pfi |-> "999999", bioregcode |-> VVP, evc |-> 550, area |-> 30000] }

\* from_postgis: the records in the order of the query, each with its geometry
from_postgis(recs) ==
    [i \in 1..Len(recs) |->
        [view_pfi |-> recs[i].view_pfi, bioregcode |-> recs[i].bioregcode,
         evc |-> recs[i].evc, geom |-> [id |-> i, area |-> recs[i].area]]]

\* The benchmark table of a whole run
MainTable ==
    << [BIOEVCCODE |-> VVP_00551, BCS_CATEGORY |-> Str(Vulnerable)],
       [BIOEVCCODE |-> VVP_0055, BCS_CATEGORY |-> Str(Endangered)] >>

\* args_to_options of cli.py, format_map.get of web.py
args_to_options(a) ==
    IF a.entry = Web
    THEN IF a.output_format \in {"nvrmap", "ensym_2017", "ensym_2013"}
         THEN a.output_format
         ELSE "nvrmap"
    ELSE IF a.sbeu THEN "ensym_2013" ELSE IF a.ensym THEN "ensym_2017" ELSE "nvrmap"

\* What the builders read: args in the script, the properties of opts in the package
options(a, md) ==
    IF a.entry \in {Cli, Web}
    THEN [ensym |-> md = "ensym_2017", sbeu |-> md = "ensym_2013", gainscore |-> a.gainscore]
    ELSE [ensym |-> a.ensym, sbeu |-> a.sbeu, gainscore |-> a.gainscore]

MainInit ==
    /\ args \in CommandLines
    /\ impl = implementation(args.entry)
    /\ mode = ""
    /\ view_pfi_list \in MainBatches
    /\ evc_df = <<>>
    /\ cur = NoRow
    /\ gdf = <<>>
    /\ count = <<>>
    /\ pc = "parse_args"
    /\ err = ""
    /\ call = NoCall
    /\ input_gdf = <<>>
    /\ output_gdf = NoFrame
    /\ shapefile = NoFile
    /\ exit_code = Running
    /\ req = <<>>
    /\ final_config = NoConfig
    /\ engine = ""

\* The run ends with exception or message e: the process exits with the given
\* status; generate() of web.py flashes the message and redirects instead
abort(e, status) ==
    /\ err' = e
    /\ IF args.entry = Web
       THEN pc' = "redirected" /\ exit_code' = exit_code
       ELSE pc' = "exited" /\ exit_code' = status

\* parse_args and what follows it up to the query. No parcel id: argparse
\* ends db-nvrmap.py and db-ensym.py (nargs='+') with status 2, run_cli
\* returns 1, generate() redirects. cli.py and web.py fix the format here.
MainParseArgs ==
    /\ pc = "parse_args"
    /\ IF view_pfi_list = <<>>
       THEN /\ abort(IF args.entry \in {Script, Legacy}
                     THEN "error: the following arguments are required: N"
                     ELSE "At least one PFI value is required", 
                     IF args.entry \in {Script, Legacy} THEN 2 ELSE 1)
            /\ mode' = mode
       ELSE /\ pc' = IF args.entry = Legacy THEN "connect_db" ELSE "load_config"
            /\ mode' = IF args.entry \in {Cli, Web} THEN args_to_options(args) ELSE mode
            /\ UNCHANGED <<err, exit_code>>
    /\ UNCHANGED <<impl, view_pfi_list, evc_df, cur, gdf, count, call,
                   args, input_gdf, output_gdf, shapefile, req>>
    /\ UNCHANGED <<final_config, engine>>

\* A variant of load_config that reports the error and goes on without it
MainLoadConfigReportingOnly ==
    /\ pc = "load_config"
    /\ \E found \in BOOLEAN :
        /\ final_config' = IF found THEN config ELSE final_config
        /\ err' = IF found THEN err ELSE "EnvironmentError"
        /\ pc' = "connect_db"
        /\ exit_code' = exit_code
    /\ UNCHANGED <<impl, mode, view_pfi_list, evc_df, cur, gdf, count, call,
                   args, input_gdf, output_gdf, shapefile, req, engine>>

\* load_config: the configuration, or EnvironmentError (FileNotFoundError in
\* the package when the directory is set and holds no config.json), which ends
\* the run. db-ensym.py has no configuration to load.
MainLoadConfig ==
    /\ pc = "load_config"
    /\ \E found \in BOOLEAN :
        IF found
        THEN /\ final_config' = config
             /\ pc' = "connect_db"
             /\ UNCHANGED <<err, exit_code>>
        ELSE /\ \E e \in IF args.entry = Script
                         THEN {"EnvironmentError"}
                         ELSE {"EnvironmentError", "FileNotFoundError: Config file not found"} :
                    abort(e, 1)
             /\ final_config' = final_config
    /\ UNCHANGED <<impl, mode, view_pfi_list, evc_df, cur, gdf, count, call,
                   args, input_gdf, output_gdf, shapefile, req, engine>>

\* connect_db: KeyError for a connection key the configuration lacks, the
\* driver's OperationalError for a database that cannot be reached; in
\* db-ensym.py create_engine and the engine.connect() of from_postgis
MainConnectDb ==
    /\ pc = "connect_db"
    /\ \E outcome \in IF args.entry = Legacy
                       THEN {"connected", "OperationalError"}
                       ELSE {"connected", "KeyError: Missing DB config keys",
                             "OperationalError"} :
        IF outcome = "connected"
        THEN /\ engine' = "connected"
             /\ pc' = "load_geo_dataframe"
             /\ UNCHANGED <<err, exit_code>>
        ELSE /\ abort(outcome, 1)
             /\ engine' = engine
    /\ UNCHANGED <<impl, mode, view_pfi_list, evc_df, cur, gdf, count, call,
                   args, input_gdf, output_gdf, shapefile, req, final_config>>

\* A variant of load_geo_dataframe without the test of gdf.empty
MainLoadGeoDataframeUnchecked ==
    /\ pc = "load_geo_dataframe"
    /\ \E recs \in SeqsOf(MainRecords, 0, MaxRows) :
        /\ input_gdf' = from_postgis(recs)
        /\ pc' = "load_evc_data"
        /\ UNCHANGED <<err, exit_code>>
    /\ UNCHANGED <<impl, mode, view_pfi_list, evc_df, cur, gdf, count, call,
                   args, output_gdf, shapefile, req>>
    /\ UNCHANGED <<final_config, engine>>

\* load_geo_dataframe: an empty result raises ValueError, which nothing in
\* db-nvrmap.py catches; db-ensym.py prints and calls exit(), status 0
MainLoadGeoDataframe ==
    /\ pc = "load_geo_dataframe"
    /\ \E recs \in SeqsOf(MainRecords, 0, MaxRows) :
        IF recs = <<>>
        THEN /\ abort(IF args.entry = Legacy
                      THEN "No search results found"
                      ELSE "ValueError: No search results found",
                      IF args.entry = Legacy THEN 0 ELSE 1)
             /\ input_gdf' = input_gdf
        ELSE /\ input_gdf' = from_postgis(recs)
             /\ pc' = "load_evc_data"
             /\ UNCHANGED <<err, exit_code>>
    /\ UNCHANGED <<impl, mode, view_pfi_list, evc_df, cur, gdf, count, call,
                   args, output_gdf, shapefile, req>>
    /\ UNCHANGED <<final_config, engine>>

\* load_evc_data, in every format: pd.read_excel raises FileNotFoundError when
\* the workbook is missing; db-ensym.py catches it, prints and calls exit()
MainLoadEvcData ==
    /\ pc = "load_evc_data"
    /\ \E present \in BOOLEAN :
        IF present
        THEN /\ evc_df' = MainTable
             /\ pc' = "select_output_gdf"
             /\ UNCHANGED <<err, exit_code>>
        ELSE /\ abort(IF args.entry = Legacy
                      THEN "Excel file not found"
                      ELSE "FileNotFoundError", 
                      IF args.entry = Legacy THEN 0 ELSE 1)
             /\ evc_df' = evc_df
    /\ UNCHANGED <<impl, mode, view_pfi_list, cur, gdf, count, call,
                   args, input_gdf, output_gdf, shapefile, req>>
    /\ UNCHANGED <<final_config, engine>>

\* select_output_gdf and the builder it calls; an exception of a row ends the run
MainSelectOutputGdf ==
    /\ pc = "select_output_gdf"
    /\ LET b == IF args.entry = Legacy
                THEN legacy_build(input_gdf, evc_df, view_pfi_list, args)
                ELSE select_output_gdf(impl, options(args, mode), input_gdf, evc_df,
                                       view_pfi_list, final_config)
       IN IF b.exc # ""
          THEN /\ abort(b.exc, 1)
               /\ output_gdf' = output_gdf
          ELSE /\ output_gdf' = b.gdf
               /\ pc' = "write"
               /\ UNCHANGED <<err, exit_code>>
    /\ UNCHANGED <<impl, mode, view_pfi_list, evc_df, cur, gdf, count, call,
                   args, input_gdf, shapefile, req>>
    /\ UNCHANGED <<final_config, engine>>

\* write_gdf / write_shapefile / to_file: the frame is written with the schema
\* of the format, or the target cannot be written and the error ends the run
MainWrite ==
    /\ pc = "write"
    /\ \E writable \in BOOLEAN :
        IF writable
        THEN /\ shapefile' = [written |-> TRUE, attempts |-> shapefile.attempts + 1,
                              schema |-> IF args.entry = Legacy
                                         THEN "infer_schema"
                                         ELSE schema_for(options(args, mode)),
                              gdf |-> output_gdf]
             /\ err' = err
             /\ IF args.entry = Web
                THEN pc' = "sent" /\ exit_code' = exit_code
                ELSE pc' = "exited" /\ exit_code' = 0
        ELSE /\ abort(IF args.entry \in {Cli, Web} THEN "RuntimeError: Failed to write"
                      ELSE "OSError", 1)
             /\ shapefile' = [shapefile EXCEPT !.attempts = @ + 1]
    /\ UNCHANGED <<impl, mode, view_pfi_list, evc_df, cur, gdf, count, call,
                   args, input_gdf, output_gdf, req>>
    /\ UNCHANGED <<final_config, engine>>

MainNext ==
    \/ MainParseArgs
    \/ MainLoadConfig
    \/ MainConnectDb
    \/ MainLoadGeoDataframe
    \/ MainLoadEvcData
    \/ MainSelectOutputGdf
    \/ MainWrite

MainSpec == MainInit /\ [][MainNext]_vars

----------------------------------------------------------------------------
(* Two requests of the web interface in progress at once: generate() of     *)
(* web.py calls generate_shapefile_to_gdf, whose builder classifies the     *)
(* rows of its own frame with its own list count                            *)

Requests == 1..2

WebBatches == {<<"123456">>, <<"123456", "789012">>}

WebRecords ==
    { [view_pfi |-> id, bioregcode |-> VVP, evc |-> 550] : id \in RowIds }

\* A variant with one list at module level, as the global count of db-ensym.py
count_scope_module(r) == 0

\* count is a local variable of build_ensym_gdf / build_nvrmap_gdf: every
\* call of a builder, that is every request, has a list of its own
count_scope(r) == r

WebInit ==
    /\ impl = "package"
    /\ mode = ""
    /\ view_pfi_list = <<>>
    /\ evc_df = MainTable
    /\ cur = NoRow
    /\ gdf = <<>>
    /\ count = [s \in {count_scope(r) : r \in Requests} |-> <<>>]
    /\ pc = "serving"
    /\ err = ""
    /\ call = NoCall
    /\ args = NoArgs
    /\ input_gdf = <<>>
    /\ output_gdf = NoFrame
    /\ shapefile = NoFile
    /\ exit_code = Running
    /\ req \in [Requests -> [view_pfis : WebBatches,
                             output_format : {"nvrmap", "ensym_2017"},
                             rows : {<<>>}, out : {<<>>},
                             pc : {"select_output_gdf"}]]
    /\ final_config = config
    /\ engine = "connected"

\* The first line of the builder of request r: count = [0] * len(view_pfi_list)
WebBuildStart(r) ==
    /\ req[r].pc = "select_output_gdf"
    /\ count' = [count EXCEPT ![count_scope(r)] = [i \in 1..Len(req[r].view_pfis) |-> 0]]
    /\ req' = [req EXCEPT ![r].pc = "apply"]
    /\ UNCHANGED <<impl, mode, view_pfi_list, evc_df, cur, gdf, pc, err, call,
                   args, input_gdf, output_gdf, shapefile, exit_code>>
    /\ UNCHANGED <<final_config, engine>>

\* apply of request r hands the next row of its frame to the row function
WebProcessRow(r) ==
    /\ req[r].pc = "apply"
    /\ Len(req[r].rows) < MaxRows
    /\ \E row \in WebRecords :
        LET res == process_rows(impl, req[r].output_format, row, evc_df,
                                req[r].view_pfis, count[count_scope(r)])
        IN IF res.exc # ""
           THEN /\ req' = [req EXCEPT ![r].pc = "failed", ![r].rows = Append(@, row)]
                /\ count' = count
           ELSE /\ req' = [req EXCEPT ![r].rows = Append(@, row),
                                      ![r].out = Append(@, [si |-> res.si, zi |-> res.zi])]
                /\ count' = [count EXCEPT ![count_scope(r)] = res.count]
    /\ UNCHANGED <<impl, mode, view_pfi_list, evc_df, cur, gdf, pc, err, call,
                   args, input_gdf, output_gdf, shapefile, exit_code>>
    /\ UNCHANGED <<final_config, engine>>

\* The frame of request r has no further row
WebApplyDone(r) ==
    /\ req[r].pc = "apply"
    /\ Len(req[r].rows) >= 1
    /\ req' = [req EXCEPT ![r].pc = "built"]
    /\ UNCHANGED <<impl, mode, view_pfi_list, evc_df, cur, gdf, count, pc, err, call,
                   args, input_gdf, output_gdf, shapefile, exit_code>>
    /\ UNCHANGED <<final_config, engine>>

WebNext ==
    \E r \in Requests :
        \/ WebBuildStart(r)
        \/ WebProcessRow(r)
        \/ WebApplyDone(r)

WebSpec == WebInit /\ [][WebNext]_vars

----------------------------------------------------------------------------
(* A run over a long frame: the builder classifies as many rows of a few    *)
(* parcels as a counter can take in the model                               *)

LongBatches == {<<"123456">>, <<"123456", "789012">>}

\* The parcel ids of the rows, in the order of the query: all of one parcel,
\* one parcel and an id the batch lacks in turn, two parcels in turn
LongOrders == {<<"123456">>, <<"123456", "999999">>, <<"789012", "123456">>}

LongFrames ==
    { from_postgis([i \in 1..MaxCounter |->
          [view_pfi |-> ids[((i - 1) % Len(ids)) + 1], bioregcode |-> VVP,
           evc |-> 550, area |-> SQ_METERS_PER_HECTARE]]) : ids \in LongOrders }

LongInit ==
    /\ impl \in Impls
    /\ mode = "nvrmap"
    /\ view_pfi_list \in LongBatches
    /\ evc_df = MainTable
    /\ cur = NoRow
    /\ gdf = <<>>
    /\ count = <<>>
    /\ pc = "select_output_gdf"
    /\ err = ""
    /\ call = NoCall
    /\ args = NoArgs
    /\ input_gdf \in LongFrames
    /\ output_gdf = NoFrame
    /\ shapefile = NoFile
    /\ exit_code = Running
    /\ req = <<>>
    /\ final_config = config
    /\ engine = "connected"

\* gdf.apply(..., axis=1): the next row of the frame, in index order
LongProcessRow ==
    /\ pc = "apply"
    /\ Len(gdf) < Len(input_gdf)
    /\ LET row == [view_pfi |-> input_gdf[Len(gdf) + 1].view_pfi,
                   bioregcode |-> input_gdf[Len(gdf) + 1].bioregcode,
                   evc |-> input_gdf[Len(gdf) + 1].evc]
           r == process_rows(impl, mode, row, evc_df, view_pfi_list, count)
       IN /\ cur' = row
          /\ IF r.exc # ""
             THEN /\ pc' = "failed"
                  /\ err' = r.exc
                  /\ UNCHANGED <<gdf, count>>
             ELSE /\ gdf' = Append(gdf, [view_pfi |-> row.view_pfi,
                                         bioregcode |-> row.bioregcode,
                                         evc |-> row.evc,
                                         si |-> r.si, zi |-> r.zi,
                                         bioevc |-> r.bioevc, bcs |-> r.bcs])
                  /\ count' = r.count
                  /\ UNCHANGED <<pc, err>>
    /\ UNCHANGED <<impl, mode, view_pfi_list, evc_df, call>>
    /\ UNCHANGED main_vars

\* The frame has no further row: apply returns
LongApplyDone ==
    /\ pc = "apply"
    /\ Len(gdf) = Len(input_gdf)
    /\ pc' = "built"
    /\ UNCHANGED <<impl, mode, view_pfi_list, evc_df, cur, gdf, count, err, call>>
    /\ UNCHANGED main_vars

LongNext ==
    \/ BuildStart
    \/ LongProcessRow
    \/ LongApplyDone

LongSpec == LongInit /\ [][LongNext]_vars

----------------------------------------------------------------------------
(* Claims about a run *)

\* The k of a row: how many rows up to it, in input order, have its site
RankInSite(i) == Cardinality({j \in 1..i : gdf[j].si = gdf[i].si})

\* Position p (counted from 1) is the first of the batch holding id
FirstAt(batch, id, p) ==
    /\ p \in 1..Len(batch)
    /\ batch[p] = id
    /\ \A q \in 1..(p - 1) : batch[q] # id

InBatch(batch, id) == \E p \in 1..Len(batch) : batch[p] = id

\* The label the running implementation gives counter value k
LabelOf(k) == generate_zone_id(impl, <<k>>, 1)

A == <<65>>

B == <<66>>

\* C1: every classified row carries the site resolved from its parcel id (1 for
\* a batch of one and for an id the batch lacks, else the id's first position),
\* and the k-th row of a site, in input order, carries the label of counter
\* value k: the counter is incremented before the label is computed.
C1_SiteAndZoneByInputOrder ==
    \A i \in DOMAIN gdf :
        /\ IF Len(view_pfi_list) > 1 /\ InBatch(view_pfi_list, gdf[i].view_pfi)
           THEN FirstAt(view_pfi_list, gdf[i].view_pfi, gdf[i].si)
           ELSE gdf[i].si = 1
        /\ gdf[i].zi = LabelOf(RankInSite(i))

\* The example of C1: batch [123456, 789012], rows of 123456, 789012, 123456
C1_Witness ==
    /\ pc = "built"
    /\ view_pfi_list = <<"123456", "789012">>
    /\ Len(gdf) = 3
    /\ <<gdf[1].view_pfi, gdf[2].view_pfi, gdf[3].view_pfi>> = <<"123456", "789012", "123456">>
    /\ <<gdf[1].si, gdf[2].si, gdf[3].si>> = <<1, 2, 1>>
    /\ <<gdf[1].zi, gdf[2].zi, gdf[3].zi>> = <<A, A, B>>

\* C2: in a batch of two or more ids, a row whose id is in the batch has the
\* site 1 + (0-based first position of the id), and rows of the same id have
\* the same site whatever was classified between them.
C2_SiteIsFirstPositionAndStable ==
    Len(view_pfi_list) >= 2 =>
        /\ \A i \in DOMAIN gdf :
              InBatch(view_pfi_list, gdf[i].view_pfi) =>
                  \E p \in 0..(Len(view_pfi_list) - 1) :
                      /\ FirstAt(view_pfi_list, gdf[i].view_pfi, p + 1)
                      /\ gdf[i].si = 1 + p
        /\ \A i, j \in DOMAIN gdf :
              (gdf[i].view_pfi = gdf[j].view_pfi
                  /\ InBatch(view_pfi_list, gdf[i].view_pfi)) => gdf[i].si = gdf[j].si

\* The id in second position resolved twice, with a row of another site between
C2_Witness ==
    /\ view_pfi_list = <<"123456", "789012">>
    /\ Len(gdf) = 3
    /\ gdf[1].view_pfi = "789012" /\ gdf[1].si = 2
    /\ gdf[2].view_pfi = "123456" /\ gdf[2].si = 1
    /\ gdf[3].view_pfi = "789012" /\ gdf[3].si = 2

\* C3: a row whose id is not in a batch of two or more ids is classified with
\* site 1 and the next label of site 1, and no error ends the run, in every
\* format and in both implementations.
C3_AbsentParcelFallsBackToSite1 ==
    /\ (cur # NoRow /\ Len(view_pfi_list) >= 2 /\ ~InBatch(view_pfi_list, cur.view_pfi)) =>
          /\ pc # "failed"
          /\ gdf # <<>>
          /\ gdf[Len(gdf)].view_pfi = cur.view_pfi
    /\ \A i \in DOMAIN gdf :
          (Len(view_pfi_list) >= 2 /\ ~InBatch(view_pfi_list, gdf[i].view_pfi)) =>
              gdf[i].si = 1 /\ gdf[i].zi = LabelOf(RankInSite(i))

\* No key of the table contains the code
NoKeyContains(df, code) == \A r \in 1..Len(df) : ~str_contains(df[r].BIOEVCCODE, code)

LooksUpStatus == mode \in {"ensym_2017", "ensym_2013"}

\* C8: when no benchmark key contains a row's combined code (an empty table
\* included), the row is classified with status LC, its site and its zone, the
\* counter of its site is incremented, and the miss never ends the run.
C8_LookupMissGivesLC ==
    /\ err # IndexErrorIloc
    /\ LooksUpStatus =>
          \A i \in DOMAIN gdf :
              NoKeyContains(evc_df, gdf[i].bioevc) =>
                  /\ gdf[i].bcs = LC
                  /\ gdf[i].si \in 1..Len(view_pfi_list)
                  /\ gdf[i].zi = LabelOf(RankInSite(i))
    /\ \A s \in 1..Len(count) :
          count[s] = Cardinality({i \in DOMAIN gdf : gdf[i].si = s})

\* A finished run over a table none of whose keys contains the code of the
\* second row, which is classified LC in site 1 after a row that matched
C8_Witness ==
    /\ pc = "built"
    /\ LooksUpStatus
    /\ evc_df # <<>>
    /\ Len(gdf) = 2
    /\ ~NoKeyContains(evc_df, gdf[1].bioevc)
    /\ NoKeyContains(evc_df, gdf[2].bioevc)
    /\ gdf[2].bcs = LC
    /\ gdf[2].si = 1 /\ gdf[1].si = 1
    /\ count[1] = 2

\* The sum of the counters
RECURSIVE SumOf(_)
SumOf(cnt) == IF cnt = <<>> THEN 0 ELSE Head(cnt) + SumOf(Tail(cnt))

\* The counters hold, site by site, the number of rows classified so far
CountersTallyRows ==
    (pc \in {"apply", "built"} \/ (pc = "failed" /\ cur # NoRow)) =>
        /\ Len(count) = Len(view_pfi_list)
        /\ gdf = <<>> => \A s \in 1..Len(count) : count[s] = 0
        /\ SumOf(count) = Len(gdf)
        /\ \A s \in 1..Len(count) :
              count[s] = Cardinality({i \in DOMAIN gdf : gdf[i].si = s})

\* A step of the row loop either classifies no row and leaves the counters, or
\* classifies one row and adds 1 to the counter of its site and to no other
OneIncrementPerRow ==
    pc = "apply" =>
        \/ count' = count /\ gdf' = gdf
        \/ /\ Len(gdf') = Len(gdf) + 1
           /\ Len(count') = Len(count)
           /\ LET s == gdf'[Len(gdf')].si IN
              /\ s \in 1..Len(count)
              /\ count'[s] = count[s] + 1
              /\ \A o \in 1..Len(count) : o # s => count'[o] = count[o]

\* C21: the counters are all 0 when the row loop starts; classifying a row adds
\* exactly 1 to the counter of the row's site and leaves the others; no counter
\* decreases or starts again; after k rows the counters sum to k and each holds
\* the number of rows of its site.
C21_CountersTallyOneIncrementPerRow ==
    []CountersTallyRows /\ [][OneIncrementPerRow]_vars

\* Three rows classified in a batch of two: two of site 1 around one of site 2
C21_Witness ==
    /\ pc = "built"
    /\ view_pfi_list = <<"123456", "789012">>
    /\ Len(gdf) = 3
    /\ <<gdf[1].si, gdf[2].si, gdf[3].si>> = <<1, 2, 1>>
    /\ count = <<2, 1>>

\* The (site, zone) pairs of the rows classified so far
SiteZonePairs == {<<gdf[i].si, gdf[i].zi>> : i \in DOMAIN gdf}

\* C26: no two rows of a run carry the same (site_id, zone_id) pair, however
\* many rows a site has and in whatever order they come, rows that fell back
\* to site 1 included: there are as many distinct pairs as rows.
C26_NoTwoRowsShareSiteAndZone ==
    Cardinality(SiteZonePairs) = Len(gdf)

\* The script, in a batch of two, after 60 rows of site 1, every second one
\* of a parcel the batch lacks: the labels have gone from A past Z to BH
C26_Witness ==
    /\ impl = "script"
    /\ view_pfi_list = <<"123456", "789012">>
    /\ Len(gdf) = 60
    /\ gdf[2].view_pfi = "999999"
    /\ <<gdf[1].si, gdf[1].zi>> = <<1, A>>
    /\ <<gdf[2].si, gdf[2].zi>> = <<1, B>>
    /\ <<gdf[60].si, gdf[60].zi>> = <<1, <<66, 72>>>>

\* The orders n rows can come in
Orders(n) ==
    {p \in [1..n -> 1..n] : \A i, j \in 1..n : i # j => p[i] # p[j]}

\* The run of the same batch and table over the same rows in the order p
Reordered(p) ==
    apply(impl, mode, [i \in 1..Len(gdf) |-> gdf[p[i]]], evc_df, view_pfi_list,
          [s \in 1..Len(view_pfi_list) |-> 0])

\* C29: only the zone label depends on the input order. Whatever the order
\* of the rows of a finished run, each row gets the same site, combined code
\* and status, and the output holds the same set of (site, zone) pairs.
C29_OnlyTheZoneDependsOnInputOrder ==
    pc = "built" =>
        \A p \in Orders(Len(gdf)) :
            LET other == Reordered(p) IN
            /\ other.exc = ""
            /\ Len(other.out) = Len(gdf)
            /\ \A i \in 1..Len(gdf) :
                  /\ other.out[i].si = gdf[p[i]].si
                  /\ other.out[i].bioevc = gdf[p[i]].bioevc
                  /\ other.out[i].bcs = gdf[p[i]].bcs
            /\ {<<other.out[i].si, other.out[i].zi>> : i \in 1..Len(gdf)} = SiteZonePairs

\* Two rows of site 1 with different codes, labelled A then B; taken in the
\* other order the second row is labelled A and the first B
C29_Witness ==
    /\ pc = "built"
    /\ Len(gdf) = 2
    /\ LooksUpStatus
    /\ gdf[1].si = 1 /\ gdf[2].si = 1
    /\ gdf[1].bioevc # gdf[2].bioevc
    /\ gdf[1].zi = A /\ gdf[2].zi = B
    /\ Reordered(<<2, 1>>).out[1].zi = A
    /\ Reordered(<<2, 1>>).out[1].bioevc = gdf[2].bioevc
    /\ Reordered(<<2, 1>>).out[2].zi = B

\* C27: every zone label a run emits fits the 2-character zone_id field and
\* is made of uppercase letters: one or two characters, each of 'A'..'Z',
\* however many rows a site has.
C27_LabelsAreOneOrTwoLetters ==
    \A i \in DOMAIN gdf :
        /\ Len(gdf[i].zi) \in 1..2
        /\ \A k \in 1..Len(gdf[i].zi) : gdf[i].zi[k] \in ord_A..(ord_A + 25)

----------------------------------------------------------------------------
(* Claims about a whole run *)

\* The run's builder has returned its frame
BuilderReturned == output_gdf # NoFrame

\* The column that holds the site in the frame
SiteColumn == IF "site_id" \in Range(output_gdf.columns) THEN "site_id" ELSE "HH_SI"

\* The site of a parcel id as the run's implementation resolves it
SiteOfId(id) ==
    IF impl = "legacy"
    THEN legacy_site(view_pfi_list, id, [i \in 1..Len(view_pfi_list) |-> 0]).si
    ELSE calculate_site_id(impl, view_pfi_list, id).si

\* C11: a run whose builder completes has one output row per input row, and
\* the i-th output row carries the geometry of the i-th input row and the
\* site of its parcel id: no row is skipped, duplicated or reordered.
C11_OneOutputRowPerInputRowInOrder ==
    BuilderReturned =>
        /\ input_gdf # <<>>
        /\ Len(output_gdf.rows) = Len(input_gdf)
        /\ \A i \in 1..Len(input_gdf) :
              /\ output_gdf.rows[i]["geom"] = input_gdf[i].geom
              /\ output_gdf.rows[i][SiteColumn] = SiteOfId(input_gdf[i].view_pfi)
        /\ shapefile.written => shapefile.gdf = output_gdf

\* Three rows of two parcels, written in the order 123456, 789012, 123456
C11_Witness ==
    /\ shapefile.written
    /\ view_pfi_list = <<"123456", "789012">>
    /\ Len(input_gdf) = 3
    /\ input_gdf[1].view_pfi = "123456"
    /\ input_gdf[2].view_pfi = "789012"
    /\ input_gdf[3].view_pfi = "123456"
    /\ [i \in 1..3 |-> shapefile.gdf.rows[i][SiteColumn]] = <<1, 2, 1>>
    /\ [i \in 1..3 |-> shapefile.gdf.rows[i]["geom"].id] = <<1, 2, 3>>

PlainMapColumns ==
    <<"site_id", "zone_id", "prop_id", "vlot", "lot", "recruits", "type", "cp",
      "veg_codes", "lt_count", "cond_score", "gain_score", "surv_date", "geom">>

DetailedReportColumns ==
    <<"HH_PAI", "HH_D", "HH_CP", "HH_SI", "HH_ZI", "HH_VAC", "HH_EVC", "BCS",
      "LT_CNT", "HH_H_S", "G_S", "HH_A", "geom">>

LegacyReportColumns ==
    <<"HH_PAI", "HH_SI", "HH_ZI", "HH_VAC", "HH_CP", "HH_D", "HH_H_S", "G_HA",
      "HH_A", "geom">>

ColumnsOfSchema(schema) ==
    IF schema = "NVRMAP_SCHEMA"
    THEN PlainMapColumns
    ELSE IF schema = "ENSYM_2017_SCHEMA" THEN DetailedReportColumns ELSE LegacyReportColumns

\* C12: the frame written with the schema of a mode has exactly the mode's
\* columns in the mode's order, the geometry last, every row has exactly
\* these fields, and none of bioregcode, evc, view_pfi is among them.
C12_ColumnsOfEachMode ==
    (shapefile.written /\ args.entry \in {Script, Cli, Web}) =>
        /\ shapefile.schema \in {"NVRMAP_SCHEMA", "ENSYM_2017_SCHEMA", "ENSYM_2013_SCHEMA"}
        /\ shapefile.gdf.columns = ColumnsOfSchema(shapefile.schema)
        /\ shapefile.gdf.columns[Len(shapefile.gdf.columns)] = "geom"
        /\ Range(shapefile.gdf.columns) \cap {"bioregcode", "evc", "view_pfi"} = {}
        /\ \A i \in 1..Len(shapefile.gdf.rows) :
              DOMAIN shapefile.gdf.rows[i] = Range(shapefile.gdf.columns)

\* The script writes a Detailed report of two rows
C12_Witness ==
    /\ shapefile.written
    /\ args.entry = Script
    /\ shapefile.schema = "ENSYM_2017_SCHEMA"
    /\ shapefile.gdf.columns = DetailedReportColumns
    /\ Len(shapefile.gdf.rows) = 2

\* The Detailed report of the run's own batch, records, table and gain score
DetailedOfSameRun ==
    build_ensym_gdf(impl, input_gdf, evc_df, view_pfi_list, config,
                    [ensym |-> TRUE, sbeu |-> FALSE, gainscore |-> args.gainscore])

\* C13: the Legacy report of a run has the columns of the Detailed report of
\* the same batch, records and configuration without HH_EVC, BCS and LT_CNT
\* and with G_S named G_HA, and every value of every row is that of the
\* Detailed report (G_HA that of G_S).
C13_LegacyIsDetailedLessThreeColumns ==
    (BuilderReturned /\ args.entry \in {Script, Cli, Web}
       /\ output_gdf.columns = LegacyReportColumns) =>
        LET detailed == DetailedOfSameRun IN
        /\ detailed.exc = ""
        /\ detailed.gdf.columns = DetailedReportColumns
        /\ Range(output_gdf.columns) =
              ((Range(detailed.gdf.columns) \ {"HH_EVC", "BCS", "LT_CNT"}) \ {"G_S"})
                 \cup {"G_HA"}
        /\ Len(output_gdf.rows) = Len(detailed.gdf.rows)
        /\ \A i \in 1..Len(output_gdf.rows) :
              /\ output_gdf.rows[i]["G_HA"] = detailed.gdf.rows[i]["G_S"]
              /\ \A c \in Range(output_gdf.columns) \ {"G_HA"} :
                    output_gdf.rows[i][c] = detailed.gdf.rows[i][c]

\* A Legacy report of the package with two rows of one parcel and an override
C13_Witness ==
    /\ BuilderReturned
    /\ args.entry = Cli
    /\ args.sbeu
    /\ args.gainscore = [given |-> TRUE, v |-> 75]
    /\ output_gdf.columns = LegacyReportColumns
    /\ Len(output_gdf.rows) = 2
    /\ output_gdf.rows[2]["HH_ZI"] = B
    /\ output_gdf.rows[2]["G_HA"] = 75

\* The messages of an empty result
NoResults == {"ValueError: No search results found", "No search results found"}

\* C14: a run whose query returns no polygon ends with the 'no results'
\* error before anything is classified, and no run ever writes a frame
\* without rows.
C14_EmptyResultWritesNothing ==
    /\ err \in NoResults =>
          /\ pc \in {"exited", "redirected"}
          /\ input_gdf = <<>>
          /\ evc_df = <<>>
          /\ output_gdf = NoFrame
          /\ shapefile = NoFile
    /\ (pc \in {"load_evc_data", "select_output_gdf", "write", "sent"} \/ BuilderReturned) =>
          input_gdf # <<>>
    /\ shapefile.written => Len(shapefile.gdf.rows) >= 1

\* The script has ended on an empty result
C14_Witness ==
    /\ args.entry = Script
    /\ view_pfi_list # <<>>
    /\ err = "ValueError: No search results found"
    /\ pc = "exited"
    /\ shapefile = NoFile

RequestedFormat ==
    IF args.entry = Web
    THEN args_to_options(args)
    ELSE IF args.sbeu THEN "ensym_2013" ELSE IF args.ensym THEN "ensym_2017" ELSE "nvrmap"

MissingBenchmark == {"FileNotFoundError", "Excel file not found"}

\* C16: a missing benchmark workbook ends a run only in a format that looks
\* the status up; a PlainMap run never ends on it.
C16_MissingBenchmarkFatalOnlyWithLookup ==
    (args.entry \in {Script, Cli, Web} /\ err \in MissingBenchmark) =>
        RequestedFormat # "nvrmap"

\* The column that holds the gain score in the frame
GainColumn ==
    IF "gain_score" \in Range(output_gdf.columns)
    THEN "gain_score"
    ELSE IF "G_S" \in Range(output_gdf.columns) THEN "G_S" ELSE "G_HA"

\* C17: with an override given, every row's gain score is the override; the
\* configured default is there only when no override is given.
C17_GainScoreIsTheOverride ==
    BuilderReturned =>
        \A i \in 1..Len(output_gdf.rows) :
            output_gdf.rows[i][GainColumn] =
                IF args.gainscore.given
                THEN args.gainscore.v
                ELSE IF args.entry = Legacy
                     THEN legacy_config.default_gain_score
                     ELSE config.default_gain_score

SchemaOfFormat(fmt) ==
    IF fmt = "nvrmap"
    THEN "NVRMAP_SCHEMA"
    ELSE IF fmt = "ensym_2017" THEN "ENSYM_2017_SCHEMA" ELSE "ENSYM_2013_SCHEMA"

\* C19: the two flags select the format: neither PlainMap, -e alone the
\* Detailed report, -b with or without -e the Legacy report; the frame that
\* is built and the schema it is written with are those of that format.
C19_FlagsSelectTheFormat ==
    (args.entry \in {Script, Cli}) =>
        LET fmt == IF args.sbeu THEN "ensym_2013"
                   ELSE IF args.ensym THEN "ensym_2017" ELSE "nvrmap"
        IN /\ (args.entry = Cli /\ pc # "parse_args" /\ view_pfi_list # <<>>) => mode = fmt
           /\ BuilderReturned => output_gdf.columns = ColumnsOfSchema(SchemaOfFormat(fmt))
           /\ shapefile.written => shapefile.schema = SchemaOfFormat(fmt)

\* The script, given -b alone, has written a Legacy report
C19_Witness ==
    /\ args.entry = Script
    /\ args.sbeu /\ ~args.ensym
    /\ shapefile.written
    /\ shapefile.schema = "ENSYM_2013_SCHEMA"
    /\ shapefile.gdf.columns = LegacyReportColumns

\* The errors of load_config and connect_db on a missing or incomplete
\* configuration, and those of the write
ConfigurationErrors ==
    {"EnvironmentError", "FileNotFoundError: Config file not found",
     "KeyError: Missing DB config keys"}

WriteErrors == {"OSError", "RuntimeError: Failed to write"}

\* A write is attempted at most once, after every earlier step has succeeded,
\* and a run that an earlier step ended has written nothing
WriteAfterEveryStepSucceeded ==
    /\ shapefile.attempts <= 1
    /\ shapefile.written => shapefile.attempts = 1
    /\ shapefile.attempts = 1 =>
          /\ pc \in {"exited", "sent", "redirected"}
          /\ args.entry # Legacy => final_config = config
          /\ engine = "connected"
          /\ input_gdf # <<>>
          /\ evc_df = MainTable
          /\ BuilderReturned
          /\ Len(output_gdf.rows) = Len(input_gdf)
          /\ err \in WriteErrors \cup {""}
          /\ err = "" <=> shapefile.written
    /\ (err # "" /\ err \notin WriteErrors) =>
          /\ pc \in {"exited", "redirected"}
          /\ shapefile = NoFile
    /\ err \in ConfigurationErrors =>
          input_gdf = <<>> /\ evc_df = <<>> /\ output_gdf = NoFrame

\* C24: the write is the last step of a run and is attempted at most once,
\* only after the configuration is loaded, the database connected, a
\* non-empty input loaded, the benchmark table loaded and every row
\* classified; a configuration error, like any failure of an earlier step,
\* ends the run with nothing written. No step follows a write.
C24_WriteIsLastAndOnlyAfterSuccess ==
    []WriteAfterEveryStepSucceeded /\ [][shapefile.attempts = 0]_vars

\* The package's command line has written two rows and exited
C24_Witness ==
    /\ args.entry = Cli
    /\ pc = "exited"
    /\ shapefile.written
    /\ shapefile.attempts = 1
    /\ final_config = config
    /\ engine = "connected"
    /\ Len(input_gdf) = 2
    /\ Len(shapefile.gdf.rows) = 2

\* The schema of the given name
SchemaNamed(name) ==
    IF name = "NVRMAP_SCHEMA"
    THEN NVRMAP_SCHEMA
    ELSE IF name = "ENSYM_2017_SCHEMA" THEN ENSYM_2017_SCHEMA ELSE ENSYM_2013_SCHEMA

\* The attribute columns of a frame: all but the geometry
AttributeColumns(f) == SelectSeq(f.columns, LAMBDA c : c # "geom")

\* The frame has exactly the properties of the schema as attribute columns
FitsSchema(f, name) ==
    /\ Range(AttributeColumns(f)) = Range(SchemaNamed(name).properties)
    /\ Len(AttributeColumns(f)) = Len(SchemaNamed(name).properties)
    /\ "geom" \in Range(f.columns)

\* C30: the builder and the writer agree on the format. Whatever the flags of
\* db-nvrmap.py and of cli.py and whatever format string the web form sends
\* (an unknown one is PlainMap), the attribute columns of the frame that is
\* built are exactly the property names of the schema it is written with.
C30_BuiltColumnsAreSchemaProperties ==
    args.entry \in {Script, Cli, Web} =>
        /\ BuilderReturned => FitsSchema(output_gdf, schema_for(options(args, mode)))
        /\ shapefile.written => FitsSchema(shapefile.gdf, shapefile.schema)

\* A web request with the unknown format 'shp' has written a PlainMap frame
\* with NVRMAP_SCHEMA
C30_Witness ==
    /\ args.entry = Web
    /\ args.output_format = "shp"
    /\ pc = "sent"
    /\ shapefile.written
    /\ shapefile.schema = "NVRMAP_SCHEMA"
    /\ AttributeColumns(shapefile.gdf) = NVRMAP_SCHEMA.properties

----------------------------------------------------------------------------
(* Claims about the functions *)

AA == <<65, 65>>

AB == <<65, 66>>

AZ == <<65, 90>>

BA == <<66, 65>>

\* C4: counter values 1..26 give the letters A..Z in order, 27 gives AA, 28 AB,
\* 52 AZ and 53 BA, whichever generate_zone_id computes the label.
C4_LabelsUpTo53 ==
    call.fn = "generate_zone_id" =>
        /\ call.n \in 1..26 => call.zi = <<ord_A + call.n - 1>>
        /\ call.n = 27 => call.zi = AA
        /\ call.n = 28 => call.zi = AB
        /\ call.n = 52 => call.zi = AZ
        /\ call.n = 53 => call.zi = BA

\* The bijective base-26 numeral of n over A..Z: (n-1) % 26 is the last letter,
\* the letters of (n-1) // 26 come before it, until n is 0
RECURSIVE Bijective26(_)
Bijective26(n) ==
    IF n = 0 THEN <<>> ELSE Bijective26((n - 1) \div 26) \o <<ord_A + ((n - 1) % 26)>>

\* C5: for every counter value n > 26, with no upper bound, generate_zone_id
\* returns the bijective base-26 numeral of n. Stated of the script's
\* generate_zone_id, the one that converts by base 26.
C5_BijectiveForEveryCounter ==
    (call.fn = "generate_zone_id" /\ impl = "script" /\ call.n > 26) =>
        call.zi = Bijective26(call.n)

\* C6: the combined code is the bioregion code, then '_' exactly when the code
\* has at most 3 characters, then the class truncated and padded to 4 digits,
\* in either row function of either implementation.
C6_CombinedCodeFormat ==
    call.fn = "format_bioevc" =>
        call.bioevc =
            call.bioregcode
                \o (IF Len(call.bioregcode) <= 3 THEN <<ord_underscore>> ELSE <<>>)
                \o zfill(str(int(call.evc)), 4)

\* Row r is the first of the table, in stored order, whose key contains the code
FirstMatchAt(df, code, r) ==
    /\ r \in 1..Len(df)
    /\ str_contains(df[r].BIOEVCCODE, code)
    /\ \A q \in 1..(r - 1) : ~str_contains(df[q].BIOEVCCODE, code)

\* What the implementation makes of the status cell of the row it selected
bcs_category(im, cell) ==
    IF im = "script" THEN script_bcs_category(cell) ELSE core_bcs_category(cell)

\* C7: the status is taken from the first row, in the table's stored order,
\* whose key contains the combined code as a substring: the earliest such row
\* even when a later key equals the code or matches it better.
C7_FirstContainingRowWins ==
    call.fn = "lookup_bcs_value" =>
        \A r \in 1..Len(call.evc_df) :
            FirstMatchAt(call.evc_df, call.bioevc, r) =>
                call.bcs = bcs_category(impl, call.evc_df[r].BCS_CATEGORY)

\* The example of C7: keys VVP_0055 then VVP_00551, looked up with VVP_005
C7_Witness ==
    /\ call.fn = "lookup_bcs_value"
    /\ call.evc_df = << [BIOEVCCODE |-> VVP_0055, BCS_CATEGORY |-> Str(Endangered)],
                        [BIOEVCCODE |-> VVP_00551, BCS_CATEGORY |-> Str(Vulnerable)] >>
    /\ call.bioevc = VVP_005
    /\ call.bcs = <<69>>

\* The status cell is no string, is empty, is blank, or is the placeholder TBC
InvalidCell(cell) ==
    \/ ~cell.isstr
    \/ cell.s = <<>>
    \/ \A k \in 1..Len(cell.s) : cell.s[k] = ord_space
    \/ cell.s = TBC

\* C9: a matched status that is no string, is empty, is only whitespace or is
\* "TBC" gives the status LC, in the script and in the package.
C9_InvalidStatusGivesLC ==
    call.fn = "lookup_bcs_value" =>
        \A r \in 1..Len(call.evc_df) :
            (FirstMatchAt(call.evc_df, call.bioevc, r)
                /\ InvalidCell(call.evc_df[r].BCS_CATEGORY)) => call.bcs = LC

\* LC for the value LC, else the first character of the value
LCOrFirstCharacter(v) == IF v = LC THEN LC ELSE <<v[1]>>

\* C10 as stated: a matched status that is a non-blank string other than "TBC"
\* gives LC when it is exactly "LC" and its first character otherwise, and every
\* status is "LC" or one character.
C10_FirstCharacterUnlessTBC ==
    call.fn = "lookup_bcs_value" =>
        /\ call.bcs = LC \/ Len(call.bcs) = 1
        /\ \A r \in 1..Len(call.evc_df) :
              LET cell == call.evc_df[r].BCS_CATEGORY IN
              (FirstMatchAt(call.evc_df, call.bioevc, r)
                  /\ ~InvalidCell(cell)) => call.bcs = LCOrFirstCharacter(cell.s)

\* C10 as amended: the same for a matched status that is a non-blank string
\* and is not "TBC" once the whitespace around it is trimmed.
C10_FirstCharacterUnlessTrimmedTBC ==
    call.fn = "lookup_bcs_value" =>
        /\ call.bcs = LC \/ Len(call.bcs) = 1
        /\ \A r \in 1..Len(call.evc_df) :
              LET cell == call.evc_df[r].BCS_CATEGORY IN
              (FirstMatchAt(call.evc_df, call.bioevc, r)
                  /\ ~InvalidCell(cell)
                  /\ strip(cell.s) # TBC) => call.bcs = LCOrFirstCharacter(cell.s)

\* Endangered looked up in the script gives E
C10_Witness ==
    /\ call.fn = "lookup_bcs_value"
    /\ impl = "script"
    /\ call.evc_df = << [BIOEVCCODE |-> VVP_0055, BCS_CATEGORY |-> Str(Endangered)] >>
    /\ call.bioevc = VVP_0055
    /\ call.bcs = <<69>>

\* a comes before b: a is shorter, or as long and smaller at the first
\* character where they differ (Python compares characters by their codes)
Precedes(a, b) ==
    \/ Len(a) < Len(b)
    \/ /\ Len(a) = Len(b)
       /\ \E k \in 1..Len(a) : a[k] < b[k] /\ \A j \in 1..(k - 1) : a[j] = b[j]

\* The label of counter value m at the site of the call
LabelAt(m) ==
    generate_zone_id(impl, [i \in 1..MaxBatch |-> IF i = call.si THEN m ELSE 0], call.si)

\* C22: the labels increase strictly with the counter, a shorter label before
\* a longer one and labels of equal length by their characters: the label of
\* every counter value m with 1 <= m < n comes before the label of n.
C22_LabelsIncreaseWithTheCounter ==
    call.fn = "generate_zone_id" =>
        \A m \in 1..(call.n - 1) : Precedes(LabelAt(m), call.zi)

\* The script's label of 27, AA, which follows Z, the label of 26
C22_Witness ==
    /\ call.fn = "generate_zone_id"
    /\ impl = "script"
    /\ call.n = 27
    /\ call.zi = AA
    /\ LabelAt(26) = <<90>>
    /\ Precedes(LabelAt(26), call.zi)

CA == <<67, 65>>

DA == <<68, 65>>

\* C23: generate_zone_id of the script, the one the unit test imports,
\* returns CA for counter value 78 and DA for counter value 104.
C23_LabelsOf78And104 ==
    (call.fn = "generate_zone_id" /\ impl = "script") =>
        /\ call.n = 78 => call.zi = CA
        /\ call.n = 104 => call.zi = DA

\* The label is computed by the package or by db-ensym.py
DoubledLetterCall ==
    \/ call.fn = "generate_zone_id" /\ impl = "package"
    \/ call.fn = "legacy_zone_id"

\* C25: in core.generate_zone_id and in find_hh_evc of db-ensym.py, a counter
\* value n of 27..52 gives the letter chr('A' + n - 27) twice: AA for 27, BB
\* for 28, up to ZZ for 52.
C25_DoubledLettersFrom27To52 ==
    (DoubledLetterCall /\ call.n \in 27..52) =>
        /\ call.zi = <<ord_A + call.n - 27, ord_A + call.n - 27>>
        /\ call.n = 27 => call.zi = AA
        /\ call.n = 28 => call.zi = <<66, 66>>
        /\ call.n = 52 => call.zi = <<90, 90>>

\* The package's label of 28: BB
C25_Witness ==
    /\ call.fn = "generate_zone_id"
    /\ impl = "package"
    /\ call.n = 28
    /\ call.zi = <<66, 66>>

\* The status the implementation gives a table of the one row (key, v)
StatusOfStored(key, v) ==
    lookup_bcs_value(impl, call.bioevc, <<[BIOEVCCODE |-> key, BCS_CATEGORY |-> Str(v)]>>).bcs

\* C28: whitespace around the stored status value does not change the
\* status: a matched row holding v with blanks before or after it yields
\* what a row holding v yields (' LC' as 'LC', ' Endangered' as 'Endangered').
C28_StatusIgnoresSurroundingWhitespace ==
    call.fn = "lookup_bcs_value" =>
        \A r \in 1..Len(call.evc_df) :
            LET cell == call.evc_df[r].BCS_CATEGORY IN
            (FirstMatchAt(call.evc_df, call.bioevc, r) /\ cell.isstr) =>
                call.bcs = StatusOfStored(call.evc_df[r].BIOEVCCODE, strip(cell.s))

\* C20: for a batch of at most one parcel id, the empty batch included, site
\* resolution returns 1 for every parcel id, equal to the batch entry or
\* not, and raises nothing.
C20_SiteIsOneForBatchOfAtMostOne ==
    (call.fn = "calculate_site_id" /\ Len(call.view_pfi_list) <= 1) =>
        call.exc = "" /\ call.si = 1

\* The package resolves an id that is not the sole entry of the batch
C20_Witness ==
    /\ call.fn = "calculate_site_id"
    /\ impl = "package"
    /\ call.view_pfi_list = <<"123456">>
    /\ call.view_pfi = "999999"
    /\ call.exc = ""
    /\ call.si = 1

----------------------------------------------------------------------------
(* Claims about requests in progress at once *)

\* What request r produces for the rows it has been handed when it runs alone
Alone(r) ==
    apply(impl, req[r].output_format, req[r].rows, evc_df, req[r].view_pfis,
          [i \in 1..Len(req[r].view_pfis) |-> 0])

\* C18: however two requests are interleaved, the sites and zone labels of
\* each are those it produces alone, and the counters its rows read hold
\* the tally of its own rows only.
C18_CountersArePrivateToARun ==
    \A r \in Requests :
        req[r].pc \in {"apply", "built", "failed"} =>
            LET alone == Alone(r) IN
            /\ req[r].pc = "failed" <=> alone.exc # ""
            /\ req[r].pc # "failed" =>
                  /\ Len(alone.out) = Len(req[r].out)
                  /\ \A i \in 1..Len(req[r].out) :
                        /\ req[r].out[i].si = alone.out[i].si
                        /\ req[r].out[i].zi = alone.out[i].zi
                  /\ Len(count[count_scope(r)]) = Len(req[r].view_pfis)
                  /\ \A s \in 1..Len(req[r].view_pfis) :
                        count[count_scope(r)][s] =
                            Cardinality({i \in 1..Len(req[r].out) : req[r].out[i].si = s})

\* Both requests have classified two rows of parcel 123456, turn by turn,
\* and each has the labels A and B
C18_Witness ==
    \A r \in Requests :
        /\ req[r].pc = "built"
        /\ Len(req[r].out) = 2
        /\ req[r].out[1] = [si |-> 1, zi |-> A]
        /\ req[r].out[2] = [si |-> 1, zi |-> B]

====
